---- MODULE Spec2Model ----
(***************************************************************************)
(* Model of the AIAgentRaw server: src/pdf.py (the persisted vector index  *)
(* cache), src/server.py (the Flask handlers register, login, ask_ai and   *)
(* upload_files, and the module-level csv_engines / pdf_engines / tools /  *)
(* agent) and src/main.py (the same tool list for the command line).       *)
(*                                                                         *)
(* A path or file name is a sequence of tokens: "/" and "." are the        *)
(* separator characters, every other token is a run of ordinary            *)
(* characters.  The Flask server handles requests on threads, so a handler *)
(* is a sequence of steps between which other handlers may run.            *)
(***************************************************************************)
EXTENDS Naturals, Sequences, FiniteSets

VARIABLES
    path, derived,                \* a name derivation: its input and its result
    other, derivedOther,          \* the derivation for a second upload
    boot, csv_paths, pdf_paths,   \* module import: position, and the two path lists
    disk,                         \* file contents by path
    store,                        \* the persist directories by index name
    csv_engines, pdf_engines,     \* the module-level engine dictionaries
    tools, agent,                 \* the tool list and the agent built from it
    users,                        \* the mock user database
    pc, req, loc, resp,           \* per thread: position, request, locals, response
    nreq,                         \* requests accepted so far
    regOk, firstRecord,           \* history: 201 answers and first record by username
    regHist,                      \* history: contents of completed registrations by source
    firstBuilt                    \* history: index persisted by the first completed build

vars == << path, derived, other, derivedOther, boot, csv_paths, pdf_paths, disk, store, csv_engines,
           pdf_engines, tools, agent, users, pc, req, loc, resp, nreq, regOk,
           firstRecord, regHist, firstBuilt >>

nameVars == << path, derived, other, derivedOther >>
bootVars == << boot, csv_paths, pdf_paths >>
srvVars  == << disk, store, csv_engines, pdf_engines, tools, agent, users >>
thrVars  == << pc, req, loc, resp, nreq >>
histVars == << regOk, firstRecord, regHist, firstBuilt >>

---------------------------------------------------------------------------
(* Bounds *)

MaxPathLen == 5
MaxStartup == 2
NumThreads == 2
MaxRequests == 3
MaxFiles == 1

---------------------------------------------------------------------------
(* Values *)

Missing == "<missing>"
None == "<none>"

Max(S) == CHOOSE x \in S : \A y \in S : y <= x
Min(S) == CHOOSE x \in S : \A y \in S : x <= y

SeqsUpTo(S, n) == UNION { [1..k -> S] : k \in 0..n }

\* Python truthiness of an optional string: None and "" are falsy.
Falsy(x) == x \in {Missing, None, ""}

---------------------------------------------------------------------------
(* Python dictionaries: insertion-ordered key/value pairs with unique keys *)

EmptyDict == << >>

DictKeys(d) == { d[i][1] : i \in DOMAIN d }

DictHas(d, k) == k \in DictKeys(d)

\* d[k] = v: an existing key keeps its position.
DictSet(d, k, v) ==
    IF DictHas(d, k)
    THEN [i \in DOMAIN d |-> IF d[i][1] = k THEN << k, v >> ELSE d[i]]
    ELSE Append(d, << k, v >>)

RECURSIVE DictUpdate(_, _)
\* d.update(e)
DictUpdate(d, e) ==
    IF e = << >> THEN d
    ELSE DictUpdate(DictSet(d, Head(e)[1], Head(e)[2]), Tail(e))

---------------------------------------------------------------------------
(* Name derivation: os.path.basename(p).split('.')[0] *)

LastIndexOf(s, c) ==
    LET I == { i \in DOMAIN s : s[i] = c } IN IF I = {} THEN 0 ELSE Max(I)

FirstIndexOf(s, c) ==
    LET I == { i \in DOMAIN s : s[i] = c } IN IF I = {} THEN Len(s) + 1 ELSE Min(I)

\* os.path.basename: what follows the last "/".
Basename(p) == SubSeq(p, LastIndexOf(p, "/") + 1, Len(p))

\* s.split('.')[0]: what precedes the first ".".
SplitDotFirst(s) == SubSeq(s, 1, FirstIndexOf(s, ".") - 1)

DerivedName(p) == SplitDotFirst(Basename(p))

\* s.endswith('.' + ext)
EndsWithExt(s, ext) ==
    /\ Len(s) >= 2
    /\ s[Len(s) - 1] = "."
    /\ s[Len(s)] = ext

\* os.path.join(folder, filename): an absolute filename replaces the folder.
PathJoin(folder, filename) ==
    IF filename # << >> /\ filename[1] = "/" THEN filename
    ELSE folder \o << "/" >> \o filename

\* f"{name}_data"
DataToolName(name) == name \o << "_data" >>

---------------------------------------------------------------------------
(* Files *)

UPLOAD_FOLDER == << "uploads" >>

DataFile(stem, ext) == << "data", "/", stem, ".", ext >>

\* src/server.py line 48 and src/pdf.py line 28
HardCsvPaths == << DataFile("population", "csv"), DataFile("movies", "csv") >>
HardPdfPaths == << DataFile("Canada", "pdf"), DataFile("Croatia", "pdf") >>

\* The files a deployment may list at import.
CsvCandidates ==
    { DataFile("population", "csv"), DataFile("movies", "csv"), DataFile("report", "csv") }
PdfCandidates ==
    { DataFile("Canada", "pdf"), DataFile("Croatia", "pdf"), DataFile("report", "pdf") }

\* The file names a client uploads.
UploadFilenames == { << "report", ".", "pdf" >>, << "population", ".", "csv" >> }

InitialContent == "v0"
UploadContents == { "vA", "vB" }

OtherFilename == << "notes", ".", "txt" >>

\* What request.files.getlist('files') may hold: an unnamed part is falsy.
UploadedFiles ==
    [filename : UploadFilenames, content : UploadContents]
        \cup { [filename |-> OtherFilename, content |-> "vA"],
               [filename |-> << >>, content |-> "vA"] }

UploadPaths == { PathJoin(UPLOAD_FOLDER, f) : f \in UploadFilenames \cup {OtherFilename} }
AllPaths == CsvCandidates \cup PdfCandidates \cup UploadPaths

IndexNames ==
    { DerivedName(p) : p \in PdfCandidates \cup { q \in UploadPaths : EndsWithExt(q, "pdf") } }
SourceNames == { DerivedName(p) : p \in AllPaths }

---------------------------------------------------------------------------
(* Engines, indexes, tools *)

\* PandasQueryEngine(df=pd.read_csv(path))
CsvEngine(rows) == [kind |-> "pandas", data |-> rows]

\* VectorStoreIndex.from_documents(data)
FromDocuments(data) == [kind |-> "index", data |-> data]

\* index.as_query_engine()
AsQueryEngine(index) == [kind |-> "retriever", data |-> index.data]

Absent == [state |-> "absent", data |-> None]
Partial == [state |-> "partial", data |-> None]
Persisted(index) == [state |-> "complete", data |-> index.data]

\* os.path.exists(index_name)
PathExists(st, name) == st[name].state # "absent"

\* load_index_from_storage(StorageContext.from_defaults(persist_dir=index_name))
LoadIndexFromStorage(st, name) == [kind |-> "index", data |-> st[name].data]

RECURSIVE load_csvs_from(_, _, _)
load_csvs_from(engines, paths, dsk) ==
    IF paths = << >> THEN engines
    ELSE load_csvs_from(
            DictSet(engines, DerivedName(Head(paths)), CsvEngine(dsk[Head(paths)])),
            Tail(paths), dsk)

load_csvs(paths, dsk) == load_csvs_from(EmptyDict, paths, dsk)

\* get_index run without interleaving (module import): << index, store >>
get_index(data, index_name, st) ==
    IF ~PathExists(st, index_name)
    THEN LET index == FromDocuments(data)
         IN << index, [st EXCEPT ![index_name] = Persisted(index)] >>
    ELSE << LoadIndexFromStorage(st, index_name), st >>

RECURSIVE load_pdfs_from(_, _, _, _)
\* load_pdfs run without interleaving (module import): << engines, store >>
load_pdfs_from(engines, paths, dsk, st) ==
    IF paths = << >> THEN << engines, st >>
    ELSE LET pdf_name == DerivedName(Head(paths))
             r == get_index(dsk[Head(paths)], pdf_name, st)
         IN load_pdfs_from(DictSet(engines, pdf_name, r[1]), Tail(paths), dsk, r[2])

load_pdfs(paths, dsk, st) == load_pdfs_from(EmptyDict, paths, dsk, st)

note_engine == [name |-> << "note_engine" >>, engine |-> [kind |-> "note", data |-> None]]

CsvTool(kv) == [name |-> DataToolName(kv[1]), engine |-> kv[2]]
PdfTool(kv) == [name |-> DataToolName(kv[1]), engine |-> AsQueryEngine(kv[2])]

\* the list display of src/server.py lines 51-73 (src/main.py lines 28-50)
BuildTools(csvs, pdfs) ==
    << note_engine >>
       \o [i \in DOMAIN csvs |-> CsvTool(csvs[i])]
       \o [i \in DOMAIN pdfs |-> PdfTool(pdfs[i])]

\* ReActAgent.from_tools(tools, ...): the agent keeps the tools it was given.
FromTools(ts) == [tools |-> ts]

---------------------------------------------------------------------------
(* History *)

HistKeys == { "csv", "pdf" } \X SourceNames

Usernames == { "alice" }
Emails == { "a@x", "b@x" }
Passwords == { "pw" }

NoRecord == [email |-> None, password |-> None]

NoHistory ==
    /\ regOk = [u \in Usernames |-> 0]
    /\ firstRecord = [u \in Usernames |-> NoRecord]
    /\ regHist = [k \in HistKeys |-> << >>]
    /\ firstBuilt = [n \in IndexNames |-> None]

---------------------------------------------------------------------------
(* Name derivation on its own *)

PathTokens == { "report", "pdf", ".", "/" }
NotDerived == << "<not derived>" >>

Separators == { ".", "/" }

\* A path that names a file: it ends in a run of ordinary characters, its first
\* component does not start with ".", and no component or extension is empty.
NamesFile(p) ==
    /\ p # << >>
    /\ p[1] # "."
    /\ p[Len(p)] \notin Separators
    /\ \A i \in 1..(Len(p) - 1) : ~(p[i] \in Separators /\ p[i + 1] \in Separators)

FilePaths == { p \in SeqsUpTo(PathTokens, MaxPathLen) : NamesFile(p) }

InitName ==
    /\ path \in FilePaths
    /\ other \in FilePaths
    /\ derived = NotDerived
    /\ derivedOther = NotDerived
    /\ boot = "off"
    /\ csv_paths = << >> /\ pdf_paths = << >>
    /\ disk = [p \in AllPaths |-> None]
    /\ store = [n \in IndexNames |-> Absent]
    /\ csv_engines = EmptyDict /\ pdf_engines = EmptyDict
    /\ tools = << >> /\ agent = FromTools(<< >>)
    /\ users = << >>
    /\ pc = << >> /\ req = << >> /\ loc = << >> /\ resp = << >>
    /\ nreq = 0
    /\ NoHistory

\* csv_name = os.path.basename(csv_path).split('.')[0], for each of two uploads
DeriveName ==
    /\ derived = NotDerived
    /\ derived' = DerivedName(path)
    /\ derivedOther' = DerivedName(other)
    /\ UNCHANGED << path, other, bootVars, srvVars, thrVars, histVars >>

SpecName == InitName /\ [][DeriveName]_vars

---------------------------------------------------------------------------
(* Module import: pdf.py, then csv_engines, tools and agent of server.py *)

InitBoot ==
    /\ path = << >> /\ derived = NotDerived
    /\ other = << >> /\ derivedOther = NotDerived
    /\ boot = "import"
    /\ csv_paths \in SeqsUpTo(CsvCandidates, MaxStartup)
    /\ pdf_paths \in SeqsUpTo(PdfCandidates, MaxStartup)
    /\ disk = [p \in AllPaths |-> IF p \in UploadPaths THEN None ELSE InitialContent]
    /\ store = [n \in IndexNames |-> Absent]
    /\ csv_engines = EmptyDict /\ pdf_engines = EmptyDict
    /\ tools = << >> /\ agent = FromTools(<< >>)
    /\ users = << >>
    /\ pc = << >> /\ req = << >> /\ loc = << >> /\ resp = << >>
    /\ nreq = 0
    /\ NoHistory

\* pdf_engines = load_pdfs(pdf_paths)
BootPdf ==
    /\ boot = "import"
    /\ LET r == load_pdfs(pdf_paths, disk, store)
       IN pdf_engines' = r[1] /\ store' = r[2]
    /\ boot' = "pdf"
    /\ UNCHANGED << csv_paths, pdf_paths, disk, csv_engines, tools, agent, users,
                    nameVars, thrVars, histVars >>

\* csv_engines = load_csvs(csv_paths)
BootCsv ==
    /\ boot = "pdf"
    /\ csv_engines' = load_csvs(csv_paths, disk)
    /\ boot' = "csv"
    /\ UNCHANGED << csv_paths, pdf_paths, disk, store, pdf_engines, tools, agent, users,
                    nameVars, thrVars, histVars >>

\* tools = [note_engine, *[...csv_engines.items()], *[...pdf_engines.items()]]
BootTools ==
    /\ boot = "csv"
    /\ tools' = BuildTools(csv_engines, pdf_engines)
    /\ boot' = "tools"
    /\ UNCHANGED << csv_paths, pdf_paths, disk, store, csv_engines, pdf_engines, agent,
                    users, nameVars, thrVars, histVars >>

\* agent = ReActAgent.from_tools(tools, ...)
BootAgent ==
    /\ boot = "tools"
    /\ agent' = FromTools(tools)
    /\ boot' = "ready"
    /\ UNCHANGED << csv_paths, pdf_paths, disk, store, csv_engines, pdf_engines, tools,
                    users, nameVars, thrVars, histVars >>

NextBoot == BootPdf \/ BootCsv \/ BootTools \/ BootAgent

SpecTools == InitBoot /\ [][NextBoot]_vars

---------------------------------------------------------------------------
(* The running server *)

Threads == 1..NumThreads

NoReq == [op |-> "none"]
NoLoc == [op |-> "none"]
NoResp == [status |-> 0, body |-> None]

Response(status, body) == [status |-> status, body |-> body]

Init ==
    /\ path = << >> /\ derived = NotDerived
    /\ other = << >> /\ derivedOther = NotDerived
    /\ boot = "ready"
    /\ csv_paths = HardCsvPaths
    /\ pdf_paths = HardPdfPaths
    /\ disk = [p \in AllPaths |-> IF p \in UploadPaths THEN None ELSE InitialContent]
    /\ LET r == load_pdfs(HardPdfPaths, disk, [n \in IndexNames |-> Absent])
       IN /\ pdf_engines = r[1]
          /\ store = r[2]
          /\ csv_engines = load_csvs(HardCsvPaths, disk)
          /\ tools = BuildTools(load_csvs(HardCsvPaths, disk), r[1])
          /\ agent = FromTools(BuildTools(load_csvs(HardCsvPaths, disk), r[1]))
    /\ users = << >>
    /\ pc = [t \in Threads |-> "idle"]
    /\ req = [t \in Threads |-> NoReq]
    /\ loc = [t \in Threads |-> NoLoc]
    /\ resp = [t \in Threads |-> NoResp]
    /\ nreq = 0
    /\ NoHistory

Accept(t) ==
    /\ boot = "ready"
    /\ pc[t] = "idle"
    /\ nreq < MaxRequests
    /\ nreq' = nreq + 1

Finish(t, status, body) ==
    /\ pc' = [pc EXCEPT ![t] = "done"]
    /\ resp' = [resp EXCEPT ![t] = Response(status, body)]

\* The client has its response; the thread takes the next request.
Complete(t) ==
    /\ pc[t] = "done"
    /\ pc' = [pc EXCEPT ![t] = "idle"]
    /\ req' = [req EXCEPT ![t] = NoReq]
    /\ loc' = [loc EXCEPT ![t] = NoLoc]
    /\ resp' = [resp EXCEPT ![t] = NoResp]
    /\ UNCHANGED << nreq, nameVars, bootVars, srvVars, histVars >>

---------------------------------------------------------------------------
(* register and login *)

\* bcrypt.generate_password_hash(password).decode('utf-8')
GeneratePasswordHash(password) == << "bcrypt", password >>

\* bcrypt.check_password_hash(hash, password)
CheckPasswordHash(hash, password) == hash = << "bcrypt", password >>

UserRecord(email, password) ==
    [email |-> email, password |-> GeneratePasswordHash(password)]

\* users[username] = record
UsersSet(us, username, record) ==
    [u \in DOMAIN us \cup {username} |-> IF u = username THEN record ELSE us[u]]

\* register, lines 81-90: the required fields and the "username in users" test
register(t, email, username, password) ==
    /\ Accept(t)
    /\ req' = [req EXCEPT ![t] = [op |-> "register", email |-> email,
                                   username |-> username, password |-> password]]
    /\ loc' = [loc EXCEPT ![t] = [op |-> "register"]]
    /\ IF Falsy(email) \/ Falsy(username) \/ Falsy(password)
       THEN Finish(t, 400, "Email, username, and password are required")
       ELSE IF username \in DOMAIN users
       THEN Finish(t, 400, "Username already exists")
       ELSE /\ pc' = [pc EXCEPT ![t] = "reg_store"]
            /\ UNCHANGED resp
    /\ UNCHANGED << nameVars, bootVars, srvVars, histVars >>

\* register, lines 93-101: hash the password, store the record, answer 201
register_store(t) ==
    /\ pc[t] = "reg_store"
    /\ LET u == req[t].username
           record == UserRecord(req[t].email, req[t].password)
       IN /\ users' = UsersSet(users, u, record)
          /\ regOk' = [regOk EXCEPT ![u] = @ + 1]
          /\ firstRecord' = [firstRecord EXCEPT ![u] = IF @ = NoRecord THEN record ELSE @]
    /\ Finish(t, 201, "User registered successfully")
    /\ UNCHANGED << req, loc, nreq, nameVars, bootVars, disk, store, csv_engines,
                    pdf_engines, tools, agent, regHist, firstBuilt >>

\* login, lines 105-118
login(t, username, password) ==
    /\ Accept(t)
    /\ req' = [req EXCEPT ![t] = [op |-> "login", username |-> username,
                                   password |-> password]]
    /\ loc' = [loc EXCEPT ![t] = [op |-> "login"]]
    /\ IF Falsy(username) \/ Falsy(password)
       THEN Finish(t, 400, "Username and password are required")
       ELSE IF \/ username \notin DOMAIN users
               \/ ~CheckPasswordHash(users[username].password, password)
       THEN Finish(t, 401, "Invalid credentials")
       ELSE Finish(t, 200, "access_token")
    /\ UNCHANGED << nameVars, bootVars, srvVars, histVars >>

---------------------------------------------------------------------------
(* ask_ai *)

Latest(h) == IF h = << >> THEN None ELSE h[Len(h)]

\* the test "if question is None" in place of "if not question"
QuestionRejectedOnlyMissing(question) == question = Missing

\* line 128: if not question
QuestionRejected(question) == Falsy(question)

\* ask_ai, lines 121-129: @jwt_required, then the question test
ask_ai(t, auth, question) ==
    /\ Accept(t)
    /\ req' = [req EXCEPT ![t] = [op |-> "ask_ai", auth |-> auth, question |-> question]]
    /\ loc' = [loc EXCEPT ![t] =
                 [op |-> "ask_ai", queried |-> FALSE, tool |-> << >>, engine |-> None,
                  latest |-> None,
                  seen |-> { n \in SourceNames : regHist[<< "csv", n >>] # << >> }]]
    /\ IF ~auth
       THEN Finish(t, 401, "Missing Authorization Header")
       ELSE IF QuestionRejected(question)
       THEN Finish(t, 400, "Question is required")
       ELSE /\ pc' = [pc EXCEPT ![t] = "ask_query"]
            /\ UNCHANGED resp
    /\ UNCHANGED << nameVars, bootVars, srvVars, histVars >>

\* ask_ai, lines 130-135: agent.query(question) invokes one of the agent's tools,
\* or raises
ask_ai_query(t) ==
    /\ pc[t] = "ask_query"
    /\ \/ \E i \in DOMAIN agent.tools :
            /\ loc' = [loc EXCEPT ![t].queried = TRUE,
                                  ![t].tool = agent.tools[i].name,
                                  ![t].engine = agent.tools[i].engine,
                                  ![t].latest =
                                      [n \in SourceNames |-> Latest(regHist[<< "csv", n >>])]]
            /\ Finish(t, 200, "answer")
       \/ /\ loc' = [loc EXCEPT ![t].queried = TRUE]
          /\ Finish(t, 500, "error")
    /\ UNCHANGED << req, nreq, nameVars, bootVars, srvVars, histVars >>

---------------------------------------------------------------------------
(* upload_files, with load_csvs, load_pdfs and get_index run by its thread *)

CurrentFile(t) == req[t].files[loc[t].i]

\* the registrations kept for the history: the last two
Record(h, content) ==
    IF Len(h) < 2 THEN Append(h, content) ELSE << h[2], content >>

\* upload_files, lines 138-146: @jwt_required, then the 'files' part
upload_files(t, auth, hasFiles, files) ==
    /\ Accept(t)
    /\ req' = [req EXCEPT ![t] = [op |-> "upload_files", auth |-> auth,
                                   hasFiles |-> hasFiles, files |-> files]]
    /\ loc' = [loc EXCEPT ![t] =
                 [op |-> "upload_files", i |-> 1, file_path |-> << >>, name |-> << >>,
                  data |-> None, index |-> None, branch |-> "none", later |-> None]]
    /\ IF ~auth
       THEN Finish(t, 401, "Missing Authorization Header")
       ELSE IF ~hasFiles
       THEN Finish(t, 400, "No files part in the request")
       ELSE /\ pc' = [pc EXCEPT ![t] = "up_file"]
            /\ UNCHANGED resp
    /\ UNCHANGED << nameVars, bootVars, srvVars, histVars >>

\* lines 147-151 and 159: the loop head, "if file" and file.save(file_path)
upload_save(t) ==
    /\ pc[t] = "up_file"
    /\ IF loc[t].i > Len(req[t].files)
       THEN /\ Finish(t, 200, "Files uploaded successfully")
            /\ UNCHANGED << loc, disk >>
       ELSE IF CurrentFile(t).filename = << >>
       THEN /\ loc' = [loc EXCEPT ![t].i = @ + 1]
            /\ UNCHANGED << pc, resp, disk >>
       ELSE LET file_path == PathJoin(UPLOAD_FOLDER, CurrentFile(t).filename)
            IN /\ disk' = [disk EXCEPT ![file_path] = CurrentFile(t).content]
               /\ loc' = [loc EXCEPT ![t].file_path = file_path]
               /\ pc' = [pc EXCEPT ![t] = "up_dispatch"]
               /\ UNCHANGED resp
    /\ UNCHANGED << req, nreq, nameVars, bootVars, store, csv_engines, pdf_engines,
                    tools, agent, users, histVars >>

\* lines 154-157: the extension test; load_csvs reads the CSV, load_pdfs reads the PDF
upload_dispatch(t) ==
    /\ pc[t] = "up_dispatch"
    /\ LET filename == CurrentFile(t).filename
           file_path == loc[t].file_path
       IN IF EndsWithExt(filename, "csv")
          THEN /\ loc' = [loc EXCEPT ![t].name = DerivedName(file_path),
                                     ![t].data = disk[file_path]]
               /\ pc' = [pc EXCEPT ![t] = "csv_update"]
          ELSE IF EndsWithExt(filename, "pdf")
          THEN /\ loc' = [loc EXCEPT ![t].name = DerivedName(file_path),
                                     ![t].data = disk[file_path]]
               /\ pc' = [pc EXCEPT ![t] = "gi_check"]
          ELSE /\ loc' = [loc EXCEPT ![t].i = @ + 1]
               /\ pc' = [pc EXCEPT ![t] = "up_file"]
    /\ UNCHANGED << req, resp, nreq, nameVars, bootVars, srvVars, histVars >>

\* line 155: csv_engines.update(load_csvs([file_path]))
upload_csv_update(t) ==
    /\ pc[t] = "csv_update"
    /\ csv_engines' =
           DictUpdate(csv_engines, << << loc[t].name, CsvEngine(loc[t].data) >> >>)
    /\ regHist' = [regHist EXCEPT ![<< "csv", loc[t].name >>] = Record(@, loc[t].data)]
    /\ loc' = [loc EXCEPT ![t].i = @ + 1]
    /\ pc' = [pc EXCEPT ![t] = "up_file"]
    /\ UNCHANGED << req, resp, nreq, nameVars, bootVars, disk, store, pdf_engines,
                    tools, agent, users, regOk, firstRecord, firstBuilt >>

\* get_index, line 9: if not os.path.exists(index_name)
get_index_check(t) ==
    /\ pc[t] = "gi_check"
    /\ loc' = [loc EXCEPT ![t].later = firstBuilt[loc[t].name],
                          ![t].branch =
                              IF PathExists(store, loc[t].name) THEN "load" ELSE "build"]
    /\ pc' = [pc EXCEPT ![t] =
                 IF PathExists(store, loc[t].name) THEN "gi_load" ELSE "gi_build"]
    /\ UNCHANGED << req, resp, nreq, nameVars, bootVars, srvVars, histVars >>

\* get_index, line 11: index = VectorStoreIndex.from_documents(data)
get_index_build(t) ==
    /\ pc[t] = "gi_build"
    /\ loc' = [loc EXCEPT ![t].index = FromDocuments(loc[t].data)]
    /\ pc' = [pc EXCEPT ![t] = "gi_persist"]
    /\ UNCHANGED << req, resp, nreq, nameVars, bootVars, srvVars, histVars >>

\* get_index, line 12: persist creates the directory and starts writing its files
get_index_persist_begin(t) ==
    /\ pc[t] = "gi_persist"
    /\ store' = [store EXCEPT ![loc[t].name] = Partial]
    /\ pc' = [pc EXCEPT ![t] = "gi_persisting"]
    /\ UNCHANGED << req, loc, resp, nreq, nameVars, bootVars, disk, csv_engines,
                    pdf_engines, tools, agent, users, histVars >>

\* get_index, line 12: persist has written the last file
get_index_persist_end(t) ==
    /\ pc[t] = "gi_persisting"
    /\ store' = [store EXCEPT ![loc[t].name] = Persisted(loc[t].index)]
    /\ firstBuilt' = [firstBuilt EXCEPT ![loc[t].name] =
                         IF @ = None THEN loc[t].index.data ELSE @]
    /\ pc' = [pc EXCEPT ![t] = "gi_return"]
    /\ UNCHANGED << req, loc, resp, nreq, nameVars, bootVars, disk, csv_engines,
                    pdf_engines, tools, agent, users, regOk, firstRecord, regHist >>

\* get_index, lines 14-16: load_index_from_storage; a directory that does not hold
\* every file of an index makes it raise
get_index_load(t) ==
    /\ pc[t] = "gi_load"
    /\ IF store[loc[t].name].state = "complete"
       THEN /\ loc' = [loc EXCEPT ![t].index = LoadIndexFromStorage(store, loc[t].name)]
            /\ pc' = [pc EXCEPT ![t] = "gi_return"]
            /\ UNCHANGED resp
       ELSE /\ Finish(t, 500, "Internal Server Error")
            /\ UNCHANGED loc
    /\ UNCHANGED << req, nreq, nameVars, bootVars, srvVars, histVars >>

\* get_index, lines 11-12: the embedding call or a write of persist raises, or the
\* request is abandoned, before get_index returns
get_index_interrupted(t) ==
    /\ pc[t] \in { "gi_build", "gi_persist", "gi_persisting" }
    /\ Finish(t, 500, "Internal Server Error")
    /\ UNCHANGED << req, loc, nreq, nameVars, bootVars, srvVars, histVars >>

\* line 157: pdf_engines.update(load_pdfs([file_path]))
upload_pdf_update(t) ==
    /\ pc[t] = "gi_return"
    /\ pdf_engines' = DictUpdate(pdf_engines, << << loc[t].name, loc[t].index >> >>)
    /\ regHist' = [regHist EXCEPT ![<< "pdf", loc[t].name >>] = Record(@, loc[t].data)]
    /\ loc' = [loc EXCEPT ![t].i = @ + 1]
    /\ pc' = [pc EXCEPT ![t] = "up_file"]
    /\ UNCHANGED << req, resp, nreq, nameVars, bootVars, disk, store, csv_engines,
                    tools, agent, users, regOk, firstRecord, firstBuilt >>

---------------------------------------------------------------------------

Questions == { Missing, "", "What is the population of Canada?" }

Next ==
    \E t \in Threads :
        \/ \E e \in Emails \cup {Missing}, u \in Usernames \cup {Missing},
              p \in Passwords \cup {""} : register(t, e, u, p)
        \/ register_store(t)
        \/ \E u \in Usernames \cup {Missing}, p \in Passwords \cup {"wrong"} :
              login(t, u, p)
        \/ \E auth \in BOOLEAN, q \in Questions : ask_ai(t, auth, q)
        \/ ask_ai_query(t)
        \/ \E auth \in BOOLEAN, hasFiles \in BOOLEAN,
              files \in SeqsUpTo(UploadedFiles, MaxFiles) :
              upload_files(t, auth, hasFiles, files)
        \/ upload_save(t)
        \/ upload_dispatch(t)
        \/ upload_csv_update(t)
        \/ get_index_check(t)
        \/ get_index_build(t)
        \/ get_index_persist_begin(t)
        \/ get_index_persist_end(t)
        \/ get_index_load(t)
        \/ get_index_interrupted(t)
        \/ upload_pdf_update(t)
        \/ Complete(t)

Spec == Init /\ [][Next]_vars

\* The endpoints that leave the engines alone: register, login and ask_ai.
NextApi ==
    \E t \in Threads :
        \/ \E e \in Emails \cup {Missing}, u \in Usernames \cup {Missing},
              p \in Passwords \cup {""} : register(t, e, u, p)
        \/ register_store(t)
        \/ \E u \in Usernames \cup {Missing}, p \in Passwords \cup {"wrong"} :
              login(t, u, p)
        \/ \E auth \in BOOLEAN, q \in Questions : ask_ai(t, auth, q)
        \/ ask_ai_query(t)
        \/ Complete(t)

SpecApi == Init /\ [][NextApi]_vars

---------------------------------------------------------------------------
(* Claims *)

InGetIndex(t) ==
    pc[t] \in { "gi_build", "gi_persist", "gi_persisting", "gi_load", "gi_return" }

Building(t) == pc[t] \in { "gi_build", "gi_persist", "gi_persisting" }

\* C1: once get_index has completed a build for a name, every later get_index call
\* with that name takes the load path, builds nothing, and returns an index
\* equivalent to the one the first build persisted.
C1_LaterCallsLoadFirstIndex ==
    \A t \in Threads :
        (InGetIndex(t) /\ loc[t].later # None) =>
            /\ loc[t].branch = "load"
            /\ ~Building(t)
            /\ (pc[t] = "gi_return" => loc[t].index.data = loc[t].later)

ToolsNamed(n) == { i \in DOMAIN agent.tools : agent.tools[i].name = DataToolName(n) }

\* C2: after a document source is registered under a name with one document and
\* then again under the same name with another, the agent has exactly one tool
\* <name>_data and that tool's engine is built from the second document.
C2_ReuploadReplacesTool ==
    \A n \in SourceNames :
        LET h == regHist[<< "pdf", n >>]
        IN (Len(h) = 2 /\ h[1] # h[2]) =>
               /\ Cardinality(ToolsNamed(n)) = 1
               /\ \A i \in ToolsNamed(n) :
                      agent.tools[i].engine = AsQueryEngine(FromDocuments(h[2]))

\* C3: at most one build per corpus name is in flight; two concurrent get_index
\* calls for the same name never both run the build branch.
C3_AtMostOneBuildInFlight ==
    \A t, u \in Threads :
        (t # u /\ Building(t) /\ Building(u)) => loc[t].name # loc[u].name

\* C4: after a build was interrupted before get_index returned, a later get_index
\* call for the name loads a complete persisted index or builds from scratch; a
\* partially written store is never taken for a cache hit.
C4_PartialStoreIsNoCacheHit ==
    \A t \in Threads :
        (/\ pc[t] = "gi_load"
         /\ \A u \in Threads : ~(Building(u) /\ loc[u].name = loc[t].name))
            => store[loc[t].name].state = "complete"

StripExtension(s) ==
    LET d == LastIndexOf(s, ".")
    IN IF d > 0 /\ \E i \in 1..(d - 1) : s[i] # "." THEN SubSeq(s, 1, d - 1) ELSE s

StripDirectory(p) == SubSeq(p, LastIndexOf(p, "/") + 1, Len(p))

Stem(p) == StripExtension(StripDirectory(p))

\* C6: the derived name is the file name with its directory and its extension
\* stripped, so two paths get the same name exactly when their file names without
\* directory and extension are equal.
C6_NameIsStem ==
    derived # NotDerived =>
        /\ derived = Stem(path)
        /\ derivedOther = Stem(other)
        /\ (derived = derivedOther) <=> (Stem(path) = Stem(other))

\* C7: after a CSV of derived name n was registered through upload_files, a later
\* question that invokes the tool n_data is answered by the engine built from the
\* most recently uploaded file for n.
C7_AskUsesLatestUpload ==
    \A t \in Threads : \A n \in SourceNames :
        (/\ req[t].op = "ask_ai"
         /\ loc[t].queried
         /\ loc[t].tool = DataToolName(n)
         /\ n \in loc[t].seen)
            => loc[t].engine = CsvEngine(loc[t].latest[n])

\* C8: a question request whose question is missing or empty never reaches
\* agent.query and invokes no tool; ask_ai answers it with the validation error.
C8_EmptyQuestionRejected ==
    \A t \in Threads :
        (req[t].op = "ask_ai" /\ req[t].question \in { Missing, "" }) =>
            /\ pc[t] = "done"
            /\ ~loc[t].queried
            /\ loc[t].tool = << >>
            /\ req[t].auth => resp[t] = Response(400, "Question is required")

C8_Witness ==
    \E t \in Threads :
        /\ req[t].op = "ask_ai" /\ req[t].auth /\ req[t].question = ""
        /\ pc[t] = "done" /\ resp[t].status = 400
        /\ \E u \in Threads : pc[u] = "ask_query"

\* C10: for every username at most one register request succeeds, and a stored
\* record is never changed by a later register request.
C10_OneRegistrationPerUsername ==
    \A u \in Usernames :
        /\ regOk[u] <= 1
        /\ u \in DOMAIN users => users[u] = firstRecord[u]

====
